---- MODULE Spec2Model ----
(***************************************************************************)
(* Model of the metadata service's raft log storage                        *)
(* (src/meta/src/storage/raft_core.rs on top of                            *)
(* src/meta/src/storage/rocksdb.rs) and of the driver loop that owns the   *)
(* consensus node (src/meta/src/raft/raft.rs).                             *)
(***************************************************************************)
EXTENDS Integers, Sequences, FiniteSets, TLC

\* ------------------------------------------------------------------ bounds
\* Highest entry / snapshot index drawn as an input.
MaxIndex == 3
\* Highest term drawn as an input.
MaxTerm == 2
\* Longest sequence of storage calls explored.
MaxCalls == 4

\* ------------------------------------------------------------------ values
\* EntryType of eraftpb: EntryNormal = 0, EntryConfChange = 1.
EntryNormal == 0
EntryConfChange == 1

\* The entries drawn as inputs, one kind per term: a no-op entry
\* (EntryNormal, empty data), a conf-change entry that carries one byte,
\* and a normal entry that carries one byte.
NewEntry(i, t) ==
    CASE t % 3 = 1 ->
           [entry_type |-> EntryNormal, term |-> t, index |-> i, data |-> <<>>]
      [] t % 3 = 2 ->
           [entry_type |-> EntryConfChange, term |-> t, index |-> i,
            data |-> <<7>>]
      [] OTHER ->
           [entry_type |-> EntryNormal, term |-> t, index |-> i,
            data |-> <<9>>]

HardState_default == [term |-> 0, vote |-> 0, commit |-> 0]
ConfState_default == [voters |-> <<>>]
SnapshotMetadata_default ==
    [index |-> 0, term |-> 0, conf_state |-> ConfState_default]

\* ------------------------------------------------ protobuf wire encoding
\* prost writes the fields in tag order and leaves out a field that holds
\* its default; every value of the model is below 128, one varint byte.
VarintField(field, v) == IF v = 0 THEN <<>> ELSE <<field * 8, v>>

BytesField(field, b) == IF b = <<>> THEN <<>> ELSE <<field * 8 + 2, Len(b)>> \o b

RECURSIVE ParseFields(_)
ParseFields(b) ==
    IF b = <<>> THEN <<>>
    ELSE LET field == b[1] \div 8
             wire == b[1] % 8
             varint == [f |-> field, v |-> b[2], bs |-> <<>>]
             n == b[2]
             delimited == [f |-> field, v |-> 0, bs |-> SubSeq(b, 3, 2 + n)]
         IN  IF wire = 0
             THEN <<varint>> \o ParseFields(SubSeq(b, 3, Len(b)))
             ELSE <<delimited>> \o ParseFields(SubSeq(b, 3 + n, Len(b)))

\* The last occurrence of a field wins; an absent field keeps the default.
RECURSIVE FieldOf(_, _, _)
FieldOf(fs, field, dflt) ==
    IF fs = <<>> THEN dflt
    ELSE IF fs[Len(fs)].f = field THEN fs[Len(fs)]
    ELSE FieldOf(SubSeq(fs, 1, Len(fs) - 1), field, dflt)

NoField == [f |-> 0, v |-> 0, bs |-> <<>>]

\* Mutant: the entry type is left out of the encoding.
Entry_encode_to_vec_without_type(e) ==
    VarintField(2, e.term) \o VarintField(3, e.index) \o BytesField(4, e.data)

Entry_encode_to_vec(e) ==
    VarintField(1, e.entry_type) \o VarintField(2, e.term)
        \o VarintField(3, e.index) \o BytesField(4, e.data)

Entry_decode(b) ==
    LET fs == ParseFields(b)
    IN  [entry_type |-> FieldOf(fs, 1, NoField).v,
         term |-> FieldOf(fs, 2, NoField).v,
         index |-> FieldOf(fs, 3, NoField).v,
         data |-> FieldOf(fs, 4, NoField).bs]

HardState_encode_to_vec(hs) ==
    VarintField(1, hs.term) \o VarintField(2, hs.vote) \o VarintField(3, hs.commit)

HardState_decode(b) ==
    LET fs == ParseFields(b)
    IN  [term |-> FieldOf(fs, 1, NoField).v,
         vote |-> FieldOf(fs, 2, NoField).v,
         commit |-> FieldOf(fs, 3, NoField).v]

\* voters is a packed repeated uint64.
ConfState_encode_to_vec(cs) == BytesField(1, cs.voters)

ConfState_decode(b) == [voters |-> FieldOf(ParseFields(b), 1, NoField).bs]

\* ------------------------------------------------------ bincode of the map
RECURSIVE SortedSeq(_)
SortedSeq(S) ==
    IF S = {} THEN <<>>
    ELSE LET m == CHOOSE x \in S : \A y \in S : x <= y
         IN  <<m>> \o SortedSeq(S \ {m})

RECURSIVE PairsOf(_, _)
PairsOf(keys, m) ==
    IF keys = <<>> THEN <<>>
    ELSE <<keys[1], m[keys[1]]>> \o PairsOf(Tail(keys), m)

\* bincode::serialize of HashMap<u64, i8>: the length, then each key and
\* value.  The order of the pairs is the map's iteration order, which the
\* reader does not depend on; the model writes them in ascending key order.
serialize(m) == <<Cardinality(DOMAIN m)>> \o PairsOf(SortedSeq(DOMAIN m), m)

deserialize(b) ==
    LET n == b[1]
        keys == { b[2 * j] : j \in 1..n }
    IN  [k \in keys |-> b[1 + 2 * (CHOOSE j \in 1..n : b[2 * j] = k)]]

\* ------------------------------------------------------------- serde_json
\* serde_json::to_string of a u64 is a JSON number, of a Vec<u8> a JSON
\* array of numbers; read::<T> fails when the text is not a T.
to_string_u64(n) == [kind |-> "number", n |-> n, items |-> <<>>]
to_string_bytes(b) == [kind |-> "array", n |-> 0, items |-> b]

\* --------------------------------------------------------------- KV store
\* One column family (meta) of the RocksDB instance: the keys present and
\* the JSON text stored under each.
None == [some |-> FALSE]
Some(v) == [some |-> TRUE, v |-> v]

rds_write(db, key, json) ==
    [k \in DOMAIN db \cup {key} |-> IF k = key THEN json ELSE db[k]]

rds_read(db, key) == IF key \in DOMAIN db THEN Some(db[key]) ELSE None

rds_delete(db, key) == [k \in DOMAIN db \ {key} |-> db[k]]

\* A Result: Ok(v) or Err.
Ok(v) == [ok |-> TRUE, v |-> v]
Err == [ok |-> FALSE]

\* A typed value as a caller passes it: a u64 n or a Vec<u8> items.
U64(n) == [ty |-> "u64", n |-> n, items |-> <<>>]
Bytes(b) == [ty |-> "bytes", n |-> 0, items |-> b]

\* serde_json::to_string / from_str of a typed value.  from_str::<T> fails
\* on a text that is not a T.
to_string(value) ==
    IF value.ty = "u64" THEN to_string_u64(value.n)
    ELSE to_string_bytes(value.items)

from_str(ty, json) ==
    CASE ty = "u64" /\ json.kind = "number" -> Ok(U64(json.n))
      [] ty = "bytes" /\ json.kind = "array" -> Ok(Bytes(json.items))
      [] OTHER -> Err

\* Mutant: a key that is present keeps its value.
write_keeps_existing(db, key, value) ==
    IF key \in DOMAIN db THEN db ELSE rds_write(db, key, to_string(value))

\* RocksDBStorage::write: the value is serialized and put under the key.
write(db, key, value) == rds_write(db, key, to_string(value))

\* RocksDBStorage::read::<T>: Ok(None) for an absent key, else the stored
\* text parsed as a T.
read(db, ty, key) ==
    LET opt == rds_read(db, key)
    IN  IF opt = None THEN Ok(None)
        ELSE LET t == from_str(ty, opt.v)
             IN  IF t.ok THEN Ok(Some(t.v)) ELSE Err

\* RocksDBStorage::delete
delete(db, key) == rds_delete(db, key)

\* ------------------------------------------------------------------- keys
key_name_by_first_index == <<"metasrv_first_index", 0>>
key_name_by_last_index == <<"metasrv_last_index", 0>>
key_name_by_hard_state == <<"metasrv_hard_state", 0>>
key_name_by_conf_state == <<"metasrv_conf_state", 0>>
key_name_by_entry(idx) == <<"metasrv_entry_", idx>>
key_name_uncommit == <<"metasrv_uncommit_index", 0>>

\* ------------------------------------------------------------------ state
VARIABLES
    kv,                 \* the persisted column family (survives a restart)
    snapshot_metadata,  \* RaftRocksDBStorageCore.snapshot_metadata (memory)
    uncommit_index,     \* RaftRocksDBStorageCore.uncommit_index (memory)
    last,               \* the last storage call and how it ended
    calls,              \* how many storage calls were made so far
    config,             \* MetaRaft.config: node_id and meta_nodes
    leader_node,        \* what get_leader_node returned
    pc,                 \* where the driver (ready, run, on_ready) stands
    ready,              \* the Ready the ready cycle is working on
    light_rd,           \* the LightReady advance returned
    out,                \* what this ready cycle handed to send_message
    handled,            \* the handlers this ready cycle called
    election,           \* what Election::leader_election returned, if run
    receiver,           \* MetaRaft.receiver: the inbound channel, open or closed
    elapsed,            \* whether now.elapsed() >= heartbeat in run's loop
    node,               \* the last call the driver made on raft_node
    chan,               \* the reply channel of the last Propose received
    conf                \* the Config the consensus node was built with

storeVars == <<kv, snapshot_metadata, uncommit_index, last, calls>>
driverVars == <<config, leader_node, pc, ready, light_rd, out, handled,
                election, receiver, elapsed, node, chan, conf>>

\* ---------------------------------------------------------------- readers
first_index_of(db, sm) ==
    LET value == rds_read(db, key_name_by_first_index)
    IN  IF value = None THEN sm.index + 1 ELSE value.v.n

last_index_of(db, sm) ==
    LET value == rds_read(db, key_name_by_last_index)
    IN  IF value = None THEN sm.index ELSE value.v.n

entry_by_idx_of(db, idx) ==
    LET value == rds_read(db, key_name_by_entry(idx))
    IN  IF value = None THEN None ELSE Some(Entry_decode(value.v.items))

hard_state_of(db) ==
    LET value == rds_read(db, key_name_by_hard_state)
    IN  IF value = None THEN HardState_default
        ELSE HardState_decode(value.v.items)

conf_state_of(db) ==
    LET value == rds_read(db, key_name_by_conf_state)
    IN  IF value = None THEN ConfState_default
        ELSE ConfState_decode(value.v.items)

uncommit_index_of(db) ==
    LET value == rds_read(db, key_name_uncommit)
    IN  IF value # None THEN deserialize(value.v.items) ELSE << >>

first_index == first_index_of(kv, snapshot_metadata)
last_index == last_index_of(kv, snapshot_metadata)
entry_by_idx(idx) == entry_by_idx_of(kv, idx)
hard_state == hard_state_of(kv)
conf_state == conf_state_of(kv)
raft_state == [hard_state |-> hard_state, conf_state |-> conf_state]

\* ---------------------------------------------------------------- writers
\* Mutant: the last-index record only ever advances.
save_last_index_monotone(db, index) ==
    LET value == rds_read(db, key_name_by_last_index)
    IN  IF value # None /\ value.v.n > index THEN db
        ELSE rds_write(db, key_name_by_last_index, to_string_u64(index))

save_last_index(db, index) ==
    rds_write(db, key_name_by_last_index, to_string_u64(index))

save_hard_state(db, hs) ==
    rds_write(db, key_name_by_hard_state,
              to_string_bytes(HardState_encode_to_vec(hs)))

save_conf_state(db, cs) ==
    rds_write(db, key_name_by_conf_state,
              to_string_bytes(ConfState_encode_to_vec(cs)))

save_uncommit_index(db, ui) ==
    rds_write(db, key_name_uncommit, to_string_bytes(serialize(ui)))

\* HashMap::insert / HashMap::remove on the uncommitted map.
map_insert(m, k, v) == [x \in DOMAIN m \cup {k} |-> IF x = k THEN v ELSE m[x]]
map_remove(m, k) == [x \in DOMAIN m \ {k} |-> m[x]]

\* Mutant: the range of the loop excludes its upper end (lo..hi for lo..=hi).
RECURSIVE delete_entries_exclusive(_, _, _)
delete_entries_exclusive(db, lo, hi) ==
    IF lo >= hi THEN db
    ELSE delete_entries_exclusive(rds_delete(db, key_name_by_entry(lo)),
                                  lo + 1, hi)

RECURSIVE delete_entries(_, _, _)
delete_entries(db, lo, hi) ==
    IF lo > hi THEN db
    ELSE delete_entries(rds_delete(db, key_name_by_entry(lo)), lo + 1, hi)

\* Mutant: the last-index record is not deleted.
truncate_entry_keeps_last_index(db, sm) ==
    LET current_first_index == first_index_of(db, sm)
        current_last_index == last_index_of(db, sm)
        db1 == rds_delete(db, key_name_by_first_index)
    IN  delete_entries(db1, current_first_index, current_last_index)

\* truncate_entry reads first_index and last_index, then deletes both index
\* records and every entry key in [first_index, last_index].
truncate_entry(db, sm) ==
    LET current_first_index == first_index_of(db, sm)
        current_last_index == last_index_of(db, sm)
        db1 == rds_delete(db, key_name_by_first_index)
        db2 == rds_delete(db1, key_name_by_last_index)
    IN  delete_entries(db2, current_first_index, current_last_index)

\* The body of append's for loop, over the whole batch: st is the pair
\* [db, ui] of the column family and the in-memory uncommitted map.
RECURSIVE append_loop(_, _)
append_loop(st, entrys) ==
    IF entrys = <<>> THEN st
    ELSE LET entry == entrys[1]
             db1 == rds_write(st.db, key_name_by_entry(entry.index),
                              to_string_bytes(Entry_encode_to_vec(entry)))
             db2 == save_last_index(db1, entry.index)
             ui1 == map_insert(st.ui, entry.index, 1)
         IN  append_loop([db |-> db2, ui |-> ui1], Tail(entrys))

\* ----------------------------------------------------------------- inputs
Terms == 1..MaxTerm
Indices == 1..MaxIndex

\* Batches whose indices are consecutive and ascending, as the consensus
\* node hands them to append; the entries of one batch carry one term.
ConsecutiveBatches ==
    { [j \in 1..(hi - lo + 1) |-> NewEntry(lo + j - 1, t)]
      : <<lo, hi, t>> \in { x \in Indices \X Indices \X Terms : x[1] <= x[2] } }

\* Batches of two entries whose second index does not follow the first: an
\* internal gap or descending indices.
IrregularBatches ==
    { <<NewEntry(x[1], x[3]), NewEntry(x[2], x[3])>>
      : x \in { y \in Indices \X Indices \X Terms :
                  y[2] > y[1] + 1 \/ y[2] < y[1] } }

\* The membership a snapshot of term t carries: the voters 1..t.
ConfStateOf(t) == [voters |-> [j \in 1..t |-> j]]

SnapshotMetadatas ==
    { [index |-> i, term |-> t, conf_state |-> ConfStateOf(t)]
      : i \in 0..MaxIndex, t \in Terms }

Max(a, b) == IF a >= b THEN a ELSE b

\* What `last` records: the call, how it ended, the (first) index of its
\* argument, for an append that was accepted the last index and the term of
\* its batch, last_index as it was before the call, and whether the
\* key-value engine carried out every write of the call ("ok"), failed one
\* ("error") or the process died during the call ("crash").
Outcome(op, res, lo) ==
    [op |-> op, res |-> res, lo |-> lo, hi |-> lo, t |-> 0, pl |-> last_index,
     io |-> "ok"]

\* A panic aborts the process: nothing runs on this instance afterwards.
Alive == last.res # "panic"

\* -------------------------------------------------------------- operations
StoreInit ==
    /\ kv = << >>
    /\ snapshot_metadata = SnapshotMetadata_default
    /\ uncommit_index = << >>
    /\ last = [op |-> "new", res |-> "ok", lo |-> 0, hi |-> 0, t |-> 0,
               pl |-> 0, io |-> "ok"]
    /\ calls = 0

\* RaftRocksDBStorageCore::append
append(entrys) ==
    /\ Alive
    /\ IF Len(entrys) = 0
       THEN /\ last' = Outcome("append", "ok", 0)
            /\ UNCHANGED <<kv, snapshot_metadata, uncommit_index>>
       ELSE LET entry_first_index == entrys[1].index
            IN  IF first_index > entry_first_index
                     \/ last_index + 1 < entry_first_index
                THEN /\ last' = Outcome("append", "panic", entry_first_index)
                     /\ UNCHANGED <<kv, snapshot_metadata, uncommit_index>>
                ELSE LET st == append_loop([db |-> kv, ui |-> uncommit_index],
                                           entrys)
                     IN  /\ kv' = save_uncommit_index(st.db, st.ui)
                         /\ uncommit_index' = st.ui
                         /\ last' = [Outcome("append", "ok", entry_first_index)
                                        EXCEPT !.hi = entrys[Len(entrys)].index,
                                               !.t = entrys[1].term]
                         /\ UNCHANGED snapshot_metadata

\* Mutant: the snapshot is compared with the applied snapshot's index
\* instead of first_index.
snapshot_out_of_date_off_by_one(db, sm, index) == sm.index > index

\* The test apply_snapshot rejects a snapshot on.
snapshot_out_of_date(db, sm, index) == first_index_of(db, sm) > index

\* The writes of an apply_snapshot that passed the test, in the code's
\* order: the in-memory metadata first, then the hard state, the
\* truncation (which reads first_index under the new metadata) and the
\* conf state.  The uncommitted map is not touched.
apply_snapshot_writes(db, meta) ==
    LET cur_hs == hard_state_of(db)
        hs == [term |-> Max(cur_hs.term, meta.term),
               vote |-> HardState_default.vote,
               commit |-> meta.index]
        db1 == save_hard_state(db, hs)
        db2 == truncate_entry(db1, meta)
    IN  save_conf_state(db2, meta.conf_state)

\* RaftRocksDBStorageCore::apply_snapshot
apply_snapshot(meta) ==
    /\ Alive
    /\ IF snapshot_out_of_date(kv, snapshot_metadata, meta.index)
       THEN /\ last' = Outcome("apply_snapshot", "SnapshotOutOfDate",
                               meta.index)
            /\ UNCHANGED <<kv, snapshot_metadata, uncommit_index>>
       ELSE /\ snapshot_metadata' = meta
            /\ kv' = apply_snapshot_writes(kv, meta)
            /\ last' = Outcome("apply_snapshot", "ok", meta.index)
            /\ UNCHANGED uncommit_index

\* The writes of apply_snapshot of which only the steps in done take
\* effect: 1 save_hard_state, 2 truncate_entry, 3 save_conf_state.  A step
\* that is not in done was not reached, or its write failed in the engine.
apply_snapshot_steps(db, meta, done) ==
    LET cur_hs == hard_state_of(db)
        hs == [term |-> Max(cur_hs.term, meta.term),
               vote |-> HardState_default.vote,
               commit |-> meta.index]
        db1 == IF 1 \in done THEN save_hard_state(db, hs) ELSE db
        db2 == IF 2 \in done THEN truncate_entry(db1, meta) ELSE db1
    IN  IF 3 \in done THEN save_conf_state(db2, meta.conf_state) ELSE db2

\* apply_snapshot when the engine fails the write of step failed: the
\* Result of save_hard_state and save_conf_state is dropped (`let _ =`),
\* truncate_entry drops the Result of each delete, and Ok(()) is returned.
apply_snapshot_io_error(meta, failed) ==
    /\ Alive
    /\ ~snapshot_out_of_date(kv, snapshot_metadata, meta.index)
    /\ snapshot_metadata' = meta
    /\ kv' = apply_snapshot_steps(kv, meta, {1, 2, 3} \ {failed})
    /\ last' = [Outcome("apply_snapshot", "ok", meta.index)
                   EXCEPT !.io = "error"]
    /\ UNCHANGED uncommit_index

\* apply_snapshot when the process dies after the first n steps, and the
\* storage is then constructed again on the data path.
apply_snapshot_crash(meta, n) ==
    /\ Alive
    /\ ~snapshot_out_of_date(kv, snapshot_metadata, meta.index)
    /\ kv' = apply_snapshot_steps(kv, meta, 1..n)
    /\ snapshot_metadata' = SnapshotMetadata_default
    /\ uncommit_index' = uncommit_index_of(kv')
    /\ last' = [Outcome("apply_snapshot", "crash", meta.index)
                   EXCEPT !.io = "crash"]

\* RaftRocksDBStorageCore::commmit_index
commmit_index(idx) ==
    /\ Alive
    /\ IF idx \notin DOMAIN uncommit_index
       THEN /\ last' = Outcome("commit_index", "panic", idx)
            /\ UNCHANGED <<kv, snapshot_metadata, uncommit_index>>
       ELSE LET ui == map_remove(uncommit_index, idx)
            IN  /\ uncommit_index' = ui
                /\ kv' = save_uncommit_index(kv, ui)
                /\ last' = Outcome("commit_index", "ok", idx)
                /\ UNCHANGED snapshot_metadata

\* RaftRocksDBStorageCore::set_hard_state_commit
set_hard_state_commit(commit) ==
    /\ Alive
    /\ LET hs == [hard_state_of(kv) EXCEPT !.commit = commit]
       IN  kv' = save_hard_state(kv, hs)
    /\ last' = Outcome("set_hard_state_commit", "ok", commit)
    /\ UNCHANGED <<snapshot_metadata, uncommit_index>>

\* What RaftRocksDBStorageCore::snapshot returns on the store db with the
\* in-memory metadata sm: None when it aborts, else the metadata of the
\* snapshot.  The entry is read at the index of a default snapshot, before
\* meta.index is set, and unwrapped.
snapshot_of(db, sm) ==
    LET hs == hard_state_of(db)
        entry == entry_by_idx_of(db, SnapshotMetadata_default.index)
        index == hs.commit
    IN  IF entry = None THEN None
        ELSE IF index = sm.index
        THEN Some([index |-> index, term |-> sm.term,
                   conf_state |-> conf_state_of(db)])
        ELSE IF index > sm.index
        THEN Some([index |-> index, term |-> entry.v.term,
                   conf_state |-> conf_state_of(db)])
        ELSE None

\* RaftRocksDBStorageCore::snapshot
snapshot ==
    /\ Alive
    /\ LET sns == snapshot_of(kv, snapshot_metadata)
       IN  last' = IF sns = None THEN Outcome("snapshot", "panic", 0)
                   ELSE [Outcome("snapshot", "ok", sns.v.index)
                            EXCEPT !.t = sns.v.term]
    /\ UNCHANGED <<kv, snapshot_metadata, uncommit_index>>

\* RaftRocksDBStorageCore::save_hard_state as a call of its own.
set_hard_state(hs) ==
    /\ Alive
    /\ kv' = save_hard_state(kv, hs)
    /\ last' = [Outcome("save_hard_state", "ok", hs.commit)
                   EXCEPT !.t = hs.term]
    /\ UNCHANGED <<snapshot_metadata, uncommit_index>>

\* RaftRocksDBStorageCore::new on a data path that may hold earlier state:
\* the instance before it is dropped (a close or a crash).
new ==
    /\ snapshot_metadata' = SnapshotMetadata_default
    /\ uncommit_index' = uncommit_index_of(kv)
    /\ last' = Outcome("new", "ok", 0)
    /\ UNCHANGED kv

Call == calls < MaxCalls /\ calls' = calls + 1 /\ UNCHANGED driverVars

DoAppend ==
    Call /\ \E entrys \in ConsecutiveBatches \cup {<<>>} : append(entrys)
DoApplySnapshot == Call /\ \E meta \in SnapshotMetadatas : apply_snapshot(meta)
DoCommitIndex == Call /\ \E idx \in Indices : commmit_index(idx)
\* The consensus node only ever moves the commit forward, within the log.
DoSetHardStateCommit ==
    \E commit \in Indices :
        /\ Call
        /\ hard_state.commit <= commit
        /\ commit <= last_index
        /\ set_hard_state_commit(commit)
Reopen == Call /\ new
DoApplySnapshotIoError ==
    Call /\ \E meta \in SnapshotMetadatas, failed \in 1..3 :
                apply_snapshot_io_error(meta, failed)
DoApplySnapshotCrash ==
    Call /\ \E meta \in SnapshotMetadatas, n \in 0..2 :
                apply_snapshot_crash(meta, n)
\* append as any caller may call it, with a batch that is not consecutive.
DoAppendIrregular ==
    Call /\ \E entrys \in IrregularBatches : append(entrys)

\* ------------------------------------------------ the key-value store alone
\* Keys and typed values as a caller of RocksDBStorage passes them.
KvKeys == { <<"name", j>> : j \in 1..3 }
KvValues ==
    { U64(n) : n \in {0, 18} } \cup { Bytes(b) : b \in { <<>>, <<7, 9>> } }

\* What `last` records of a call on the key-value store.
KvOutcome(op, key, value, res) ==
    [op |-> op, res |-> res, lo |-> 0, hi |-> 0, t |-> 0, pl |-> 0,
     io |-> "ok", key |-> key, value |-> value]

KvStep ==
    UNCHANGED <<snapshot_metadata, uncommit_index, calls>>
        /\ UNCHANGED driverVars

KvWrite ==
    \E key \in KvKeys, value \in KvValues :
        /\ kv' = write(kv, key, value)
        /\ last' = KvOutcome("write", key, value, Ok(None))
        /\ KvStep

KvDelete ==
    \E key \in KvKeys :
        /\ kv' = delete(kv, key)
        /\ last' = KvOutcome("delete", key, U64(0), Ok(None))
        /\ KvStep

KvRead ==
    \E key \in KvKeys, ty \in {"u64", "bytes"} :
        /\ last' = KvOutcome("read", key, IF ty = "u64" THEN U64(0) ELSE Bytes(<<>>),
                             read(kv, ty, key))
        /\ UNCHANGED kv
        /\ KvStep

\* ----------------------------------------------------------------- driver
NodeIds == {1, 2}
Node_new(node_ip, node_id) == [node_ip |-> node_ip, node_id |-> node_id]
AddrOf(id) == <<"127.0.0.1", 9000 + id>>

\* What the consensus node may hand out as a Ready and as a LightReady.
\* The node is a library; its outputs are inputs of the driver.
ReadyMessages == { <<>>, <<"MsgAppend">> }
ReadyPersistedMessages == { <<>>, <<"MsgAppendResponse">> }
ReadySnapshots ==
    { SnapshotMetadata_default,
      [index |-> 2, term |-> 2, conf_state |-> ConfStateOf(2)] }
ReadyEntries == { <<>>, <<NewEntry(2, 2)>>, <<NewEntry(2, 3), NewEntry(3, 3)>> }
ReadyCommitted == { <<>>, <<NewEntry(2, 1), NewEntry(3, 2)>>, <<NewEntry(2, 3)>> }
ReadyHardStates == { None, Some([term |-> 2, vote |-> 1, commit |-> 2]) }

Readies ==
    [messages : ReadyMessages, snapshot : ReadySnapshots,
     committed_entries : ReadyCommitted, entries : ReadyEntries,
     hs : ReadyHardStates, persisted_messages : ReadyPersistedMessages]

LightReadies ==
    [commit_index : { None, Some(2) }, messages : ReadyMessages,
     committed_entries : { <<>>, <<NewEntry(3, 3)>> }]

DriverInit ==
    /\ config \in [node_id : NodeIds, meta_nodes : {1, 2}]
    /\ leader_node = None
    /\ pc = "ready"
    /\ ready = None
    /\ light_rd = None
    /\ out = <<>>
    /\ handled = <<>>
    /\ election = None
    /\ receiver = "open"
    /\ elapsed = FALSE
    /\ node = "none"
    /\ chan = "none"
    /\ conf = None

\* Mutant: the election is run and its outcome ignored.
get_leader_node_ignores_election ==
    /\ pc = "ready"
    /\ IF config.meta_nodes = 1
       THEN UNCHANGED election
       ELSE \E ld \in { Ok(Node_new(AddrOf(id), id)) : id \in NodeIds }
                           \cup {Err} :
               election' = Some(ld)
    /\ leader_node' = Some(Node_new(AddrOf(config.node_id), config.node_id))
    /\ pc' = "run"
    /\ UNCHANGED <<config, ready, light_rd, out, handled,
                   receiver, elapsed, node, chan, conf>>
    /\ UNCHANGED storeVars

\* MetaRaft::get_leader_node, called from MetaRaft::ready: the election is
\* run by Election::leader_election, whose outcome is an input here.
get_leader_node ==
    /\ pc = "ready"
    /\ IF config.meta_nodes = 1
       THEN /\ leader_node' =
                   Some(Node_new(AddrOf(config.node_id), config.node_id))
            /\ UNCHANGED election
       ELSE \E ld \in { Ok(Node_new(AddrOf(id), id)) : id \in NodeIds }
                           \cup {Err} :
               /\ election' = Some(ld)
               /\ leader_node' =
                      IF ld.ok THEN Some(ld.v)
                      ELSE Some(Node_new(AddrOf(config.node_id),
                                         config.node_id))
    /\ pc' = "run"
    /\ UNCHANGED <<config, ready, light_rd, out, handled,
                   receiver, elapsed, node, chan, conf>>
    /\ UNCHANGED storeVars

\* MetaRaft::build_config: the Config of the consensus node.
build_config ==
    [id |-> 1, election_tick |-> 10, heartbeat_tick |-> 3,
     max_size_per_msg |-> 1024 * 1024 * 1024, max_inflight_msgs |-> 256,
     applied |-> 0]

\* MetaRaft::new_leader: the storage is constructed on the data path and the
\* synthetic snapshot (index 1, term 1, the local node as the only voter)
\* applied to it; the result of apply_snapshot is dropped.
new_leader ==
    LET meta == [index |-> 1, term |-> 1,
                 conf_state |-> [voters |-> <<config.node_id>>]]
        ui == uncommit_index_of(kv)
        sm == SnapshotMetadata_default
    IN  /\ uncommit_index' = ui
        /\ IF snapshot_out_of_date(kv, sm, meta.index)
           THEN /\ snapshot_metadata' = sm
                /\ last' = [op |-> "apply_snapshot",
                            res |-> "SnapshotOutOfDate", lo |-> meta.index,
                            hi |-> meta.index, t |-> 0,
                            pl |-> last_index_of(kv, sm), io |-> "ok"]
                /\ UNCHANGED kv
           ELSE /\ snapshot_metadata' = meta
                /\ kv' = apply_snapshot_writes(kv, meta)
                /\ last' = [op |-> "apply_snapshot", res |-> "ok",
                            lo |-> meta.index, hi |-> meta.index, t |-> 0,
                            pl |-> last_index_of(kv, sm), io |-> "ok"]

\* MetaRaft::new_follower: the storage is constructed, nothing is written.
new_follower ==
    /\ snapshot_metadata' = SnapshotMetadata_default
    /\ uncommit_index' = uncommit_index_of(kv)
    /\ last' = [op |-> "new", res |-> "ok", lo |-> 0, hi |-> 0, t |-> 0,
                pl |-> last_index_of(kv, SnapshotMetadata_default),
                io |-> "ok"]
    /\ UNCHANGED kv

\* MetaRaft::run up to its loop: the node starts as leader when the local
\* node_id is the leader's, as follower otherwise.
run_start ==
    /\ pc = "run"
    /\ IF config.node_id = leader_node.v.node_id THEN new_leader ELSE new_follower
    /\ pc' = "recv"
    /\ node' = IF config.node_id = leader_node.v.node_id
               THEN "become_leader" ELSE "new"
    /\ elapsed' = FALSE
    /\ conf' = Some(build_config)
    /\ UNCHANGED <<calls, config, leader_node, ready, light_rd, out, handled,
                   election, receiver, chan>>

\* The head of one pass of run's loop, lines 78-90: the receive under the
\* heartbeat timeout and the arm its outcome selects.  A Raft message is
\* stepped; a Propose is proposed and its reply channel dropped at the end
\* of the arm without anything having been sent on it; a timeout does
\* nothing; a receive that yields None (the channel is closed, and stays
\* so) goes straight to the next pass.  Time passes while the receive
\* waits, and a timeout means the whole heartbeat period has.
run_recv ==
    /\ pc = "recv"
    /\ \E got \in IF receiver = "closed" THEN { "None" }
                   ELSE { "Raft", "Propose", "Timeout", "None" } :
          /\ pc' = IF got = "None" THEN "recv" ELSE "tick"
          /\ receiver' = IF got = "None" THEN "closed" ELSE receiver
          /\ node' = CASE got = "Raft" -> "step"
                        [] got = "Propose" -> "propose"
                        [] OTHER -> node
          /\ chan' = IF got = "Propose" THEN "dropped" ELSE chan
          /\ \E later \in BOOLEAN :
                 elapsed' = (elapsed \/ later \/ got = "Timeout")
    /\ UNCHANGED <<config, leader_node, ready, light_rd, out, handled,
                   election, conf>>
    /\ UNCHANGED storeVars

\* run's loop, lines 92-97: the node is ticked when the heartbeat period has
\* elapsed since the last tick, and the baseline reset.
run_tick ==
    /\ pc = "tick"
    /\ pc' = "on_ready"
    /\ IF elapsed
       THEN node' = "tick" /\ elapsed' = FALSE
       ELSE UNCHANGED <<node, elapsed>>
    /\ UNCHANGED <<config, leader_node, ready, light_rd, out, handled,
                   election, receiver, chan, conf>>
    /\ UNCHANGED storeVars

\* A step of the driver from one position to the next, with the call op on
\* the consensus node.
DriverCall(from, to, op) ==
    /\ pc = from
    /\ pc' = to
    /\ node' = op
    /\ UNCHANGED <<config, leader_node, election, receiver, elapsed, chan,
                   conf>>
    /\ UNCHANGED storeVars

DriverStep(from, to) == DriverCall(from, to, node)

\* MetaRaft::send_message: the messages are handed to the outbound sink.
send_message(kind, messages) == out' = Append(out, [kind |-> kind, msgs |-> messages])

\* MetaRaft::handle_committed_entries: an entry with empty data is skipped,
\* a conf change goes to handle_config_change, any other entry to
\* handle_normal.  Neither handler does anything.
RECURSIVE handle_committed_entries(_, _)
handle_committed_entries(h, entrys) ==
    IF entrys = <<>> THEN h
    ELSE LET entry == entrys[1]
             h1 == IF entry.data = <<>> THEN h
                   ELSE IF entry.entry_type = EntryConfChange
                   THEN Append(h, [index |-> entry.index,
                                   handler |-> "handle_config_change"])
                   ELSE Append(h, [index |-> entry.index,
                                   handler |-> "handle_normal"])
         IN  handle_committed_entries(h1, Tail(entrys))

\* on_ready, lines 105-116: without a ready it returns; with one it takes
\* the ready and sends ready.messages when there are any.
on_ready_begin ==
    \/ /\ DriverCall("on_ready", "recv", "has_ready")
       /\ UNCHANGED <<ready, light_rd, out, handled>>
    \/ /\ DriverCall("on_ready", "snapshot", "ready")
       /\ \E rd \in Readies :
             /\ ready' = Some(rd)
             /\ out' = IF rd.messages # <<>>
                       THEN <<[kind |-> "messages", msgs |-> rd.messages]>>
                       ELSE <<>>
       /\ light_rd' = None
       /\ handled' = <<>>

\* on_ready, lines 122-125: a non-default snapshot is cloned; the call that
\* applies it to the storage is commented out.
on_ready_snapshot ==
    /\ DriverStep("snapshot", "committed_entries")
    /\ UNCHANGED <<ready, light_rd, out, handled>>

\* on_ready, line 128.
on_ready_committed_entries ==
    /\ DriverStep("committed_entries", "entries")
    /\ handled' = handle_committed_entries(handled, ready.v.committed_entries)
    /\ UNCHANGED <<ready, light_rd, out>>

\* on_ready, lines 131-134: the entries are read; the append is commented
\* out.
on_ready_entries ==
    /\ DriverStep("entries", "hs")
    /\ UNCHANGED <<ready, light_rd, out, handled>>

\* on_ready, lines 138-144: the hard state is read; set_hard_state is
\* commented out.  Nothing is done with the soft state.
on_ready_hs ==
    /\ DriverStep("hs", "persisted_messages")
    /\ UNCHANGED <<ready, light_rd, out, handled>>

\* on_ready, lines 147-149.
on_ready_persisted_messages ==
    /\ DriverStep("persisted_messages", "advance")
    /\ IF ready.v.persisted_messages # <<>>
       THEN send_message("persisted_messages", ready.v.persisted_messages)
       ELSE UNCHANGED out
    /\ UNCHANGED <<ready, light_rd, handled>>

\* on_ready, lines 152-155: advance returns the light ready; the call that
\* persists its commit index is commented out.
on_ready_advance ==
    /\ DriverCall("advance", "light_messages", "advance")
    /\ \E lrd \in LightReadies : light_rd' = Some(lrd)
    /\ UNCHANGED <<ready, out, handled>>

\* on_ready, line 157.
on_ready_light_messages ==
    /\ DriverStep("light_messages", "light_committed_entries")
    /\ send_message("light_messages", light_rd.v.messages)
    /\ UNCHANGED <<ready, light_rd, handled>>

\* on_ready, lines 159-161: the light ready's committed entries take the
\* apply path, then advance_apply ends the cycle.
on_ready_light_committed_entries ==
    /\ DriverCall("light_committed_entries", "recv", "advance_apply")
    /\ handled' = handle_committed_entries(handled, light_rd.v.committed_entries)
    /\ UNCHANGED <<ready, light_rd, out>>

vars == <<kv, snapshot_metadata, uncommit_index, last, calls,
          config, leader_node, pc, ready, light_rd, out, handled,
          election, receiver, elapsed, node, chan, conf>>

\* A storage instance alone: no driver runs.
Init ==
    /\ StoreInit
    /\ config = [node_id |-> 1, meta_nodes |-> 1]
    /\ leader_node = None
    /\ pc = "none"
    /\ ready = None
    /\ light_rd = None
    /\ out = <<>>
    /\ handled = <<>>
    /\ election = None
    /\ receiver = "open"
    /\ elapsed = FALSE
    /\ node = "none"
    /\ chan = "none"
    /\ conf = None

Next == DoAppend \/ DoApplySnapshot \/ DoCommitIndex \/ DoSetHardStateCommit

\* One storage instance, from a fresh data path.
Spec == Init /\ [][Next]_vars

NextRestart == Next \/ Reopen

\* The same, with the instance dropped and reopened at any point.
SpecRestart == Init /\ [][NextRestart]_vars

InitDriver == StoreInit /\ DriverInit

\* A data path an earlier run left behind: the bootstrap snapshot applied,
\* the entries 2 and 3 appended and the commit moved to the given index.
EarlierRun(commit) ==
    LET meta == [index |-> 1, term |-> 1, conf_state |-> ConfStateOf(1)]
        db0 == apply_snapshot_writes(<< >>, meta)
        st == append_loop([db |-> db0, ui |-> << >>],
                          <<NewEntry(2, 2), NewEntry(3, 2)>>)
        db1 == save_uncommit_index(st.db, st.ui)
    IN  save_hard_state(db1, [hard_state_of(db1) EXCEPT !.commit = commit])

ExistingStores == { EarlierRun(commit) : commit \in 2..3 }

InitDriverExisting ==
    /\ kv \in ExistingStores
    /\ snapshot_metadata = SnapshotMetadata_default
    /\ uncommit_index = << >>
    /\ last = [op |-> "new", res |-> "ok", lo |-> 0, hi |-> 0, t |-> 0,
               pl |-> 0, io |-> "ok"]
    /\ calls = 0
    /\ DriverInit

NextDriver ==
    \/ get_leader_node
    \/ run_start
    \/ run_recv
    \/ run_tick
    \/ on_ready_begin
    \/ on_ready_snapshot
    \/ on_ready_committed_entries
    \/ on_ready_entries
    \/ on_ready_hs
    \/ on_ready_persisted_messages
    \/ on_ready_advance
    \/ on_ready_light_messages
    \/ on_ready_light_committed_entries

\* The driver on a fresh data path: bootstrap, then the loop and its ready
\* cycles.
SpecDriver == InitDriver /\ [][NextDriver]_vars

\* The driver started on a data path that holds the state of an earlier run.
SpecDriverExisting == InitDriverExisting /\ [][NextDriver]_vars

NextAnyBatch == Next \/ DoAppendIrregular

\* One storage instance whose append is handed any batch.
SpecAnyBatch == Init /\ [][NextAnyBatch]_vars

DoSnapshot == Call /\ snapshot
\* The consensus node records a vote: the term does not go back, the commit
\* stays.
DoSaveHardState ==
    \E term \in Terms, vote \in NodeIds :
        /\ Call
        /\ term >= hard_state.term
        /\ set_hard_state([term |-> term, vote |-> vote,
                           commit |-> hard_state.commit])

NextCore == Next \/ DoSnapshot \/ DoSaveHardState

\* One storage instance with every operation of the core: the log and
\* snapshot operations, snapshot() and the write of a whole hard state.
SpecCore == Init /\ [][NextCore]_vars

NextFault == Next \/ DoApplySnapshotIoError \/ DoApplySnapshotCrash

\* One storage instance on an engine that may fail a write of
\* apply_snapshot, in a process that may die during apply_snapshot.
SpecFault == Init /\ [][NextFault]_vars

NextKV == KvWrite \/ KvDelete \/ KvRead

\* The key-value store under any sequence of write, delete and read calls
\* on one column family.
SpecKV == Init /\ [][NextKV]_vars

\* ------------------------------------------------------------ observables
\* The log as a reader sees it: what entry_by_idx returns at each index of
\* [first_index, last_index].
LogOf(db, sm) ==
    [j \in 1..(last_index_of(db, sm) - first_index_of(db, sm) + 1) |->
        entry_by_idx_of(db, first_index_of(db, sm) + j - 1)]

Log == LogOf(kv, snapshot_metadata)

Accepted(entrys) ==
    /\ first_index <= entrys[1].index
    /\ entrys[1].index <= last_index + 1

LastIndexOfBatch(entrys) == entrys[Len(entrys)].index

\* `last` after the step names a call append(entrys): the call and, when
\* the batch was accepted, its extent and term.
NamesAppend(entrys) ==
    /\ last'.op = "append"
    /\ last'.lo = entrys[1].index
    /\ last'.res = "ok" =>
           (last'.hi = LastIndexOfBatch(entrys) /\ last'.t = entrys[1].term)

\* The step is the call append(entrys).
IsAppend(entrys) == NamesAppend(entrys) /\ append(entrys)

\* `last` after the step names a call apply_snapshot(meta).
NamesApplySnapshot(meta) ==
    /\ last'.op = "apply_snapshot"
    /\ last'.lo = meta.index

\* The step is the call apply_snapshot(meta).
IsApplySnapshot(meta) == NamesApplySnapshot(meta) /\ apply_snapshot(meta)

AppendOk == last.op = "append" /\ last.res = "ok" /\ last.lo >= 1
SnapshotOk == last.op = "apply_snapshot" /\ last.res = "ok"

\* ----------------------------------------------------------------- claims

\* C1: on one storage instance, after any sequence of accepted append and
\* apply_snapshot calls, first_index <= last_index + 1 and every index of
\* [first_index, last_index] has a stored entry.
C1_LogContiguous ==
    /\ first_index <= last_index + 1
    /\ \A i \in first_index..last_index : entry_by_idx(i) # None

\* A log of two entries appended on top of an applied snapshot.
C1_Witness ==
    /\ AppendOk
    /\ snapshot_metadata.index >= 1
    /\ first_index = snapshot_metadata.index + 1
    /\ last_index > first_index

\* C2: after every apply_snapshot that succeeds, hard_state.commit is the
\* snapshot's index, first_index is that index + 1, and no entry with an
\* index <= the snapshot's index can be read back.
C2_SnapshotPostcondition ==
    SnapshotOk =>
        /\ hard_state.commit = last.lo
        /\ first_index = last.lo + 1
        /\ \A i \in 1..last.lo : entry_by_idx(i) = None

\* C3 as stated: a snapshot at s with first_index <= s < last_index keeps
\* the entries above s: first_index = s + 1, last_index unchanged, every
\* entry of (s, last_index] still readable.
C3_SnapshotKeepsTail ==
    (SnapshotOk /\ last.lo < last.pl) =>
        /\ first_index = last.lo + 1
        /\ last_index = last.pl
        /\ \A i \in (last.lo + 1)..last.pl : entry_by_idx(i) # None

\* C3 amended: a snapshot at s with first_index <= s < last_index discards
\* the entries above s too: first_index = s + 1, last_index = s, and no
\* entry of (s, old last_index] is readable.
C3_SnapshotDropsTail ==
    (SnapshotOk /\ last.lo < last.pl) =>
        /\ first_index = last.lo + 1
        /\ last_index = last.lo
        /\ \A i \in (last.lo + 1)..last.pl : entry_by_idx(i) = None

\* A snapshot applied strictly below the last index of a log that held
\* entries above it.
C3_Witness ==
    /\ SnapshotOk
    /\ last.lo >= 1
    /\ last.lo < last.pl
    /\ last_index = last.lo

\* C4: after an accepted append of e1..en, reading the indices e1.index ..
\* en.index returns exactly e1..en (index, term, type and data), and
\* last_index = en.index.
C4_AppendReadRoundTrip ==
    AppendOk =>
        /\ \A i \in last.lo..last.hi :
              entry_by_idx(i) = Some(NewEntry(i, last.t))
        /\ last_index = last.hi

\* An accepted append of two or more entries that carry data.
C4_Witness ==
    /\ AppendOk
    /\ last_index > last.lo
    /\ entry_by_idx(last_index) # None
    /\ entry_by_idx(last_index).v.data # <<>>
    /\ entry_by_idx(last.lo).v.data # <<>>

\* C5: when the entry stored at index k has another term than the first
\* entry of an accepted batch that starts at k, no entry stored before the
\* append at an index above the batch's last index remains stored after it.
C5_TruncateOnConflict ==
    [][\A entrys \in ConsecutiveBatches :
          (/\ NamesAppend(entrys)
           /\ Accepted(entrys)
           /\ entry_by_idx(entrys[1].index) # None
           /\ entry_by_idx(entrys[1].index).v.term # entrys[1].term
           /\ IsAppend(entrys)) =>
              \A i \in (LastIndexOfBatch(entrys) + 1)..MaxIndex :
                  entry_by_idx_of(kv', i) = None]_vars

\* C6: an append whose first index k lies in [first_index, last_index]
\* leaves the log equal to the old entries below k followed by the batch,
\* and last_index equal to the batch's last index.
C6_OverlappingAppend ==
    [][\A entrys \in ConsecutiveBatches :
          (/\ NamesAppend(entrys)
           /\ first_index <= entrys[1].index
           /\ entrys[1].index <= last_index
           /\ IsAppend(entrys)) =>
              /\ LogOf(kv', snapshot_metadata')
                    = SubSeq(Log, 1, entrys[1].index - first_index)
                        \o [j \in 1..Len(entrys) |-> Some(entrys[j])]
              /\ last_index_of(kv', snapshot_metadata')
                    = LastIndexOfBatch(entrys)]_vars

\* An overlapping append that shortened the log.
C6_Witness ==
    /\ AppendOk
    /\ last.lo <= last.pl
    /\ last.lo > first_index
    /\ last_index < last.pl

UncommitMatchesLog ==
    DOMAIN uncommit_index
        = { i \in first_index..last_index : i > hard_state.commit }

\* C8: after any sequence of append, apply_snapshot, commit_index and
\* hard-state commit updates, every key of the uncommitted map is an index
\* of the log [first_index, last_index]: the map never holds an index that
\* an overlapping append truncated or that an applied snapshot covers.
C8_UncommitWithinLog ==
    \A i \in DOMAIN uncommit_index :
        first_index <= i /\ i <= last_index

\* C9: dropping the instance and constructing a new one on the same data
\* path yields the same hard state, conf state, first_index, last_index
\* and readable entries as before the close.
C9_RestartEquivalence ==
    [][new =>
          /\ hard_state_of(kv') = hard_state
          /\ conf_state_of(kv') = conf_state
          /\ first_index_of(kv', snapshot_metadata') = first_index
          /\ last_index_of(kv', snapshot_metadata') = last_index
          /\ LogOf(kv', snapshot_metadata') = Log]_vars

\* What it is for the storage to reflect a ready: its snapshot applied, its
\* entries appended, its hard state persisted.
ReadyPersisted(rd) ==
    /\ rd.snapshot # SnapshotMetadata_default =>
           snapshot_metadata = rd.snapshot
    /\ \A j \in 1..Len(rd.entries) :
           entry_by_idx(rd.entries[j].index) = Some(rd.entries[j])
    /\ rd.hs # None => hard_state = rd.hs.v

SentPersistedMessages ==
    \E j \in 1..Len(out) : out[j].kind = "persisted_messages"

\* C10: whenever a ready cycle has handed ready.persisted_messages to the
\* outbound sink, the ready's snapshot has been applied to the storage, its
\* entries appended and its hard state persisted.
C10_PersistBeforeSend ==
    (ready # None /\ SentPersistedMessages) => ReadyPersisted(ready.v)

\* The ready cycle has run to its end: advance_apply was the last call on
\* the consensus node and the loop is back at the receive.
CycleFinished == pc = "recv" /\ node = "advance_apply" /\ light_rd # None

\* C11: when on_ready is about to call advance(ready), a non-empty
\* ready.entries is stored and last_index is the index of its last entry,
\* and a present ready.hs is the persisted hard state; once advance has
\* returned, a present light_rd.commit_index is the persisted commit.
C11_StorageReflectsReady ==
    /\ (pc = "advance" /\ ready # None) =>
          /\ ready.v.entries # <<>> =>
                /\ last_index = LastIndexOfBatch(ready.v.entries)
                /\ \A j \in 1..Len(ready.v.entries) :
                      entry_by_idx(ready.v.entries[j].index)
                          = Some(ready.v.entries[j])
          /\ ready.v.hs # None => hard_state = ready.v.hs.v
    /\ (pc = "light_messages" /\ light_rd # None
            /\ light_rd.v.commit_index # None) =>
          hard_state.commit = light_rd.v.commit_index.v

\* The committed entries of this ready cycle, in the order the apply path
\* received them.
CommittedOfCycle == ready.v.committed_entries \o light_rd.v.committed_entries

\* C12: when the ready cycle has finished, no entry the apply path handed
\* to a handler has its index left in the uncommitted map, the last storage
\* call is commit_index of the last applied entry when the light ready's
\* committed entries end with one that carries data, and no entry with
\* empty data went to a handler.
C12_ApplyPathCommits ==
    CycleFinished =>
        /\ \A j \in 1..Len(handled) :
              handled[j].index \notin DOMAIN uncommit_index
        /\ LET ce == light_rd.v.committed_entries
           IN  (ce # <<>> /\ ce[Len(ce)].data # <<>>) =>
                  /\ last.op = "commit_index"
                  /\ last.lo = ce[Len(ce)].index
        /\ Len(handled)
              = Cardinality({ j \in 1..Len(CommittedOfCycle) :
                                CommittedOfCycle[j].data # <<>> })

\* C13: once a leader that received a Propose has finished a ready cycle in
\* which a normal entry with data was applied, a storage reopened on the
\* data path after a crash has hard_state.commit at or above the entry's
\* index, returns the entry at that index, and does not hold the index in
\* its uncommitted map.
C13_CommittedProposalDurable ==
    (/\ CycleFinished
     /\ chan = "dropped"
     /\ config.node_id = leader_node.v.node_id) =>
        \A j \in 1..Len(handled) :
            handled[j].handler = "handle_normal" =>
                /\ hard_state_of(kv).commit >= handled[j].index
                /\ entry_by_idx_of(kv, handled[j].index) # None
                /\ handled[j].index \notin DOMAIN uncommit_index_of(kv)

\* C14: the reply channel of a received Propose is never dropped without
\* the outcome of propose having been sent on it, and the receive of a
\* Propose is one call propose on the consensus node.
C14_ProposeReplied ==
    [][(pc = "recv" /\ chan' # chan) =>
          (node' = "propose" /\ chan' # "dropped")]_vars

\* C15: every pass of the loop goes from the receive to the tick check,
\* ticks the node there when the heartbeat period has elapsed, and goes on
\* to the ready cycle, whatever the receive yielded.
C15_TickAndReadyEveryPass ==
    [][/\ pc = "recv" => pc' = "tick"
       /\ pc = "tick" => (pc' = "on_ready" /\ (elapsed => node' = "tick"))]_vars

\* The local node, as get_leader_node constructs it.
LocalNode == Node_new(AddrOf(config.node_id), config.node_id)

\* C16: get_leader_node returns the local node when meta_nodes has one
\* entry or the election failed, and the elected node otherwise; run then
\* starts the node as leader exactly when the returned node's id is the
\* local node_id, and as follower otherwise.
C16_BootstrapLeader ==
    [][/\ pc = "ready" =>
             leader_node' =
                 Some(IF config.meta_nodes = 1 \/ election' = Some(Err)
                      THEN LocalNode ELSE election'.v.v)
       /\ pc = "run" =>
             /\ (node' = "become_leader" /\ last'.op = "apply_snapshot")
                    <=> leader_node.v.node_id = config.node_id
             /\ (node' = "new" /\ last'.op = "new")
                    <=> leader_node.v.node_id # config.node_id]_vars

\* The election named another node and the local node started as follower.
C16_Witness ==
    /\ election # None
    /\ election.v.ok
    /\ election.v.v.node_id # config.node_id
    /\ leader_node = Some(election.v.v)
    /\ pc = "recv"
    /\ node = "new"

\* What is read under every key but one is the same before and after.
OtherKeysUntouched(key) ==
    \A k2 \in KvKeys \ {key}, ty \in {"u64", "bytes"} :
        read(kv', ty, k2) = read(kv, ty, k2)

\* C17: a key never written reads None; after write(key, value) the key
\* reads the value written, after delete(key) it reads None, a delete of an
\* absent key changes nothing, a read changes nothing, and no call on one
\* key changes what is read under another key.
C17_KvSemantics ==
    [][/\ calls = 0 /\ last.op = "new" =>
             \A key \in KvKeys : read(kv, "u64", key) = Ok(None)
       /\ last'.op = "write" =>
             /\ read(kv', last'.value.ty, last'.key)
                   = Ok(Some(last'.value))
             /\ OtherKeysUntouched(last'.key)
       /\ last'.op = "delete" =>
             /\ \A ty \in {"u64", "bytes"} :
                   read(kv', ty, last'.key) = Ok(None)
             /\ OtherKeysUntouched(last'.key)
             /\ read(kv, "u64", last'.key) = Ok(None) => kv' = kv
       /\ last'.op = "read" =>
             /\ kv' = kv
             /\ last'.res = read(kv, last'.value.ty, last'.key)]_vars

\* A key was deleted and reads None while another key still reads the value
\* written under it.
C17_Witness ==
    /\ last.op = "delete"
    /\ read(kv, "u64", last.key) = Ok(None)
    /\ \E k2 \in KvKeys \ {last.key} : read(kv, "u64", k2) = Ok(Some(U64(18)))

\* C18: append of a batch with an internal index gap or with descending
\* indices aborts and stores nothing.
C18_AppendValidatesEveryEntry ==
    [][\A entrys \in IrregularBatches :
          (NamesAppend(entrys) /\ append(entrys)) =>
              /\ last'.res = "panic"
              /\ kv' = kv
              /\ uncommit_index' = uncommit_index]_vars

\* C19: no storage operation lowers the persisted hard_state.commit, and
\* hard_state.commit is never below snapshot_metadata.index.
C19_CommitMonotone ==
    [][/\ hard_state_of(kv').commit >= hard_state.commit
       /\ hard_state.commit >= snapshot_metadata.index
       /\ hard_state_of(kv').commit >= snapshot_metadata'.index]_vars

\* hard_state.commit is never below snapshot_metadata.index.
CommitCoversSnapshot == hard_state.commit >= snapshot_metadata.index

\* The snapshot is visible as a whole: the metadata, and in the store the
\* hard state, the truncation and the conf state.
AllVisible(meta) ==
    /\ snapshot_metadata' = meta
    /\ kv' = apply_snapshot_writes(kv, meta)

\* Nothing of the snapshot is visible: the store is as it was and the
\* metadata is the old one, or the default one of a reopened instance.
NoneVisible(meta) ==
    /\ kv' = kv
    /\ snapshot_metadata' \in {snapshot_metadata, SnapshotMetadata_default}

\* C20: an apply_snapshot during which a write failed or the process died
\* does not return Ok, and leaves the snapshot either visible as a whole or
\* not at all.
C20_ApplySnapshotAtomic ==
    [][(last'.op = "apply_snapshot" /\ last'.io # "ok") =>
          /\ last'.res # "ok"
          /\ \A meta \in SnapshotMetadatas :
                (\/ \E failed \in 1..3 : apply_snapshot_io_error(meta, failed)
                 \/ \E n \in 0..2 : apply_snapshot_crash(meta, n)) =>
                    (AllVisible(meta) \/ NoneVisible(meta))]_vars

\* C21: where hard_state.commit >= snapshot_metadata.index, snapshot()
\* returns the metadata with index = hard_state.commit, the current conf
\* state, and the term of the applied snapshot when the commit is its index
\* and of the stored entry at the commit otherwise; it aborts only where
\* hard_state.commit < snapshot_metadata.index.
C21_SnapshotResult ==
    last.op = "snapshot" =>
        IF hard_state.commit >= snapshot_metadata.index
        THEN /\ last.res = "ok"
             /\ snapshot_of(kv, snapshot_metadata) # None
             /\ LET meta == snapshot_of(kv, snapshot_metadata).v
                IN  /\ meta.index = hard_state.commit
                    /\ meta.conf_state = conf_state
                    /\ meta.index = snapshot_metadata.index =>
                           meta.term = snapshot_metadata.term
                    /\ meta.index # snapshot_metadata.index =>
                           /\ entry_by_idx(meta.index) # None
                           /\ meta.term = entry_by_idx(meta.index).v.term
        ELSE last.res = "panic"

\* C22: commit_index(i) returns normally, leaves i out of the uncommitted
\* map and the persisted map equal to the in-memory one; when i was not in
\* the map, neither the in-memory map nor the store changes.
C22_CommitIndexNoOpOnMissing ==
    [][\A idx \in Indices :
          (/\ last'.op = "commit_index"
           /\ last'.lo = idx
           /\ commmit_index(idx)) =>
              /\ last'.res = "ok"
              /\ idx \notin DOMAIN uncommit_index'
              /\ idx \in DOMAIN uncommit_index =>
                    uncommit_index_of(kv') = uncommit_index'
              /\ idx \notin DOMAIN uncommit_index =>
                    (uncommit_index' = uncommit_index /\ kv' = kv)]_vars

\* C24: an accepted apply_snapshot sets the persisted term to the larger of
\* the current term and the snapshot's, the persisted commit to the
\* snapshot's index, and leaves the persisted vote as it was.
C24_ApplySnapshotKeepsVote ==
    [][\A meta \in SnapshotMetadatas :
          (/\ NamesApplySnapshot(meta)
           /\ last'.res = "ok"
           /\ IsApplySnapshot(meta)) =>
              /\ hard_state_of(kv').term = Max(hard_state.term, meta.term)
              /\ hard_state_of(kv').commit = meta.index
              /\ hard_state_of(kv').vote = hard_state.vote]_vars

\* C23: the consensus node is built with the configured node_id as its
\* Raft id, and on a node started as leader the voters of the persisted
\* conf state contain that id.
C23_RaftIdIsNodeId ==
    conf # None =>
        /\ conf.v.id = config.node_id
        /\ config.node_id = leader_node.v.node_id =>
              \E j \in DOMAIN conf_state.voters :
                  conf_state.voters[j] = conf.v.id

\* C25: when run starts the node as leader on a data path that holds
\* entries above index 1 and a commit above 1, every stored entry is still
\* stored afterwards, hard_state.commit is not lower and last_index is what
\* it was.
C25_NewLeaderPreservesState ==
    [][(/\ pc = "run"
        /\ config.node_id = leader_node.v.node_id
        /\ hard_state.commit > 1
        /\ \E i \in 2..MaxIndex : entry_by_idx(i) # None) =>
          /\ \A i \in Indices : entry_by_idx_of(kv', i) = entry_by_idx(i)
          /\ hard_state_of(kv').commit >= hard_state.commit
          /\ last_index_of(kv', snapshot_metadata') = last_index]_vars

====
